---- MODULE Spec2Model ----
(***************************************************************************)
(* Model of the Letterboxd feed pipeline                                   *)
(* (custom_components/letterboxd/coordinator.py).                          *)
(*                                                                         *)
(* One LetterboxdFeedCoordinator is modelled: its Store blob, the value it *)
(* last returned from _async_update_data, and how its last cycle ended.    *)
(* One step of the model is one whole call of _async_update_data.          *)
(***************************************************************************)
EXTENDS Integers, Sequences, FiniteSets

(***************************************************************************)
(* Bounds of the model.                                                    *)
(***************************************************************************)
\* History cap.  const.py sets 500; the model uses a small cap so that the
\* trim of line 203 happens within the explored histories.
MAX_STORED_MOVIES == 2
\* Links are 1..NumLinks (distinct URL strings).
NumLinks == 3
\* date_added strings are 1..NumDates, ordered as the strings compare.
NumDates == 3
\* Longest feed (number of entries in one fetched document).
MaxBatch == 2
\* Number of distinct truncated digests the model's hash can produce.
DigestSpace == 7
\* Largest configured window size (max_movies / max_devices).
MaxWindow == 2
\* Longest list of configured feeds of one config entry.
MaxFeeds == 3
\* Display names a user can give are 1..NumNames; the URL of the i-th feed is
\* the string i, so a display name can also be the URL of a feed.
NumNames == 2
\* Entries the feeds of the feed set deliver.
NumSetLinks == 2
\* Cycles of one coordinator that can be in progress at once if nothing
\* serialises them.
MaxInflight == 2
\* URLs a user can type into the setup form are the strings 1..NumFlowUrls.
NumFlowUrls == 2
\* Longest feed the setup-time validation decodes.
MaxValidated == 4
\* Longest title, in tokens, among the titles that are all enumerated.
MaxTitleLen == 3
\* Most content blocks of a feed entry.
MaxContent == 2
\* Longest history found in storage that an earlier revision wrote.
MaxLegacy == 2

Links == 1..NumLinks
Dates == 1..NumDates
\* Titles a feed can deliver for a link: the entry at link 1 comes in two
\* versions (its title edited), the others in one.
TitlesOf(link) == IF link = 1 THEN {"A", "B"} ELSE {"A"}

\* An optional value is a sequence of length 0 (None) or 1.
None == <<>>
Some(x) == <<x>>
NoError == "NoError"
\* const.py line 18
DEFAULT_MAX_MOVIES == 5
ENTRY_ID == "entry"
FEED_NAME == "feed"

(***************************************************************************)
(* Helpers on sequences (Python slices and comprehensions).                *)
(***************************************************************************)
\* s[:n]
Take(s, n) == SubSeq(s, 1, IF n < Len(s) THEN n ELSE Len(s))

Range(s) == {s[i] : i \in DOMAIN s}

BoundedSeq(S, n) == UNION {[1..k -> S] : k \in 0..n}

\* {m.get("link") for m in movies}
LinksOf(movies) == {movies[i].link : i \in DOMAIN movies}

\* {m.get("unique_id") for m in movies}
IdsOf(movies) == {movies[i].unique_id : i \in DOMAIN movies}

(***************************************************************************)
(* _movie_unique_id_from_link_date                                         *)
(***************************************************************************)
\* hashlib.sha256(raw).hexdigest()[:32] of raw = f"{link}|{date_added}".
\* A truncated digest is a many-to-one function of the raw string; the model
\* uses a checksum with a small range, so that collisions between different
\* (link, date) pairs do occur.
Sha256Prefix(link, date_added) == (3 * link + date_added) % DigestSpace

MovieUniqueId(link, date_added) ==
    <<ENTRY_ID, FEED_NAME, Sha256Prefix(link, date_added)>>

\* what the loop body extracted for the two versions of an entry: version
\* "A" is rated 4.5, of 1999 and has an image, version "B" has none of them
RatingOf(title) == IF title = "A" THEN Some(9) ELSE None
YearOf(title) == IF title = "A" THEN Some(1999) ELSE None
ImageUrlOf(title) == IF title = "A" THEN Some(1) ELSE None

\* movie_data as built at lines 151-159
MovieData(title, link, date_added) ==
    [movie_title |-> title,
     rating      |-> RatingOf(title),
     year        |-> YearOf(title),
     image_url   |-> ImageUrlOf(title),
     date_added  |-> date_added,
     link        |-> link,
     unique_id   |-> MovieUniqueId(link, date_added)]

\* One parsed feed entry, and the feeds a fetch can deliver.
ParsedEntries ==
    UNION {{MovieData(t, l, d) : t \in TitlesOf(l), d \in Dates} : l \in Links}
Feeds == BoundedSeq(ParsedEntries, MaxBatch)

(***************************************************************************)
(* _load_stored: the stored list, every record's unique_id recomputed.     *)
(***************************************************************************)
\* faulty variant: the ids found in storage are kept
LoadStoredUnmigrated(blob) ==
    IF blob = None THEN <<>> ELSE blob[1].movies

LoadStored(blob) ==
    IF blob = None
    THEN <<>>
    ELSE [i \in DOMAIN blob[1].movies |->
            [blob[1].movies[i] EXCEPT
                !.unique_id = MovieUniqueId(blob[1].movies[i].link,
                                            blob[1].movies[i].date_added)]]

(***************************************************************************)
(* The merge loop, lines 191-200.                                          *)
(***************************************************************************)
\* faulty variants of line 197: one of the two tests left out
IsNewLinkOnly(movie, seen_links, seen_unique_ids) ==
    movie.link \notin seen_links

IsNewIdOnly(movie, seen_links, seen_unique_ids) ==
    movie.unique_id \notin seen_unique_ids

\* line 197
IsNew(movie, seen_links, seen_unique_ids) ==
    movie.link \notin seen_links /\ movie.unique_id \notin seen_unique_ids

RECURSIVE MergeLoop(_, _, _, _)
MergeLoop(stored_list, rss_movies, seen_links, seen_unique_ids) ==
    IF rss_movies = <<>>
    THEN stored_list
    ELSE LET movie == Head(rss_movies) IN
         IF IsNew(movie, seen_links, seen_unique_ids)
         THEN MergeLoop(Append(stored_list, movie), Tail(rss_movies),
                        seen_links \cup {movie.link},
                        seen_unique_ids \cup {movie.unique_id})
         ELSE MergeLoop(stored_list, Tail(rss_movies),
                        seen_links, seen_unique_ids)

\* faulty variant: a stored record whose link the feed delivers is replaced
\* by the entry of the feed
MergeRssUpdating(stored_list, rss_movies) ==
    LET Delivered(link) == {k \in DOMAIN rss_movies : rss_movies[k].link = link}
        updated == [i \in DOMAIN stored_list |->
                      IF Delivered(stored_list[i].link) = {}
                      THEN stored_list[i]
                      ELSE rss_movies[CHOOSE k \in Delivered(stored_list[i].link) :
                                        \A n \in Delivered(stored_list[i].link) : k <= n]]
    IN MergeLoop(updated, rss_movies, LinksOf(updated), IdsOf(updated))

\* faulty variant: the dedup sets are not updated by the loop
MergeRssStaticSets(stored_list, rss_movies) ==
    LET Unseen(movie) ==
            IsNew(movie, LinksOf(stored_list), IdsOf(stored_list))
    IN stored_list \o SelectSeq(rss_movies, Unseen)

\* faulty variant: the dedup sets start empty
MergeRssUnseeded(stored_list, rss_movies) ==
    MergeLoop(stored_list, rss_movies, {}, {})

\* lines 191-200: the dedup sets are built from the whole loaded list
MergeRss(stored_list, rss_movies) ==
    MergeLoop(stored_list, rss_movies, LinksOf(stored_list), IdsOf(stored_list))

(***************************************************************************)
(* list.sort(key=date_added, reverse=True): a stable descending sort.      *)
(***************************************************************************)
\* x goes behind every element whose key is >= its own (stable)
InsertDesc(sorted, x) ==
    LET k == Cardinality({i \in DOMAIN sorted :
                            sorted[i].date_added >= x.date_added})
    IN SubSeq(sorted, 1, k) \o <<x>> \o SubSeq(sorted, k + 1, Len(sorted))

\* x goes in front of the elements whose key equals its own (not stable)
InsertDescUnstable(sorted, x) ==
    LET k == Cardinality({i \in DOMAIN sorted :
                            sorted[i].date_added > x.date_added})
    IN SubSeq(sorted, 1, k) \o <<x>> \o SubSeq(sorted, k + 1, Len(sorted))

\* ascending order (reverse=True left out)
InsertAsc(sorted, x) ==
    LET k == Cardinality({i \in DOMAIN sorted :
                            sorted[i].date_added <= x.date_added})
    IN SubSeq(sorted, 1, k) \o <<x>> \o SubSeq(sorted, k + 1, Len(sorted))

\* faulty variants of line 202: ascending, and descending but not stable
RECURSIVE SortByDateAsc(_)
SortByDateAsc(list) ==
    IF list = <<>>
    THEN <<>>
    ELSE InsertAsc(SortByDateAsc(SubSeq(list, 1, Len(list) - 1)),
                   list[Len(list)])

RECURSIVE SortByDateUnstable(_)
SortByDateUnstable(list) ==
    IF list = <<>>
    THEN <<>>
    ELSE InsertDescUnstable(SortByDateUnstable(SubSeq(list, 1, Len(list) - 1)),
                            list[Len(list)])

\* line 202
RECURSIVE SortByDateDesc(_)
SortByDateDesc(list) ==
    IF list = <<>>
    THEN <<>>
    ELSE InsertDesc(SortByDateDesc(SubSeq(list, 1, Len(list) - 1)),
                    list[Len(list)])

(***************************************************************************)
(* stored_list[:MAX_STORED_MOVIES], line 203.                              *)
(***************************************************************************)
\* faulty variant: stored_list[-MAX_STORED_MOVIES:]
TrimKeepTail(list) ==
    IF Len(list) <= MAX_STORED_MOVIES
    THEN list
    ELSE SubSeq(list, Len(list) - MAX_STORED_MOVIES + 1, Len(list))

TrimToCap(list) == Take(list, MAX_STORED_MOVIES)

(***************************************************************************)
(* Lines 190-203: the history a successful cycle writes back.              *)
(***************************************************************************)
\* faulty variant: the stored list is cut before the merge, not after
TrimBeforeMerge(stored_list, rss_movies) ==
    SortByDateDesc(MergeRss(TrimToCap(stored_list), rss_movies))

MergedHistory(stored_list, rss_movies) ==
    TrimToCap(SortByDateDesc(MergeRss(stored_list, rss_movies)))

\* faulty variant: latest_movie is the last record of the window
OutputWindowLatestLast(list, n_movies, n_devices, err) ==
    [movies             |-> Take(list, n_movies),
     movies_for_devices |-> Take(list, n_devices),
     latest_movie       |-> IF Take(list, n_movies) # <<>>
                            THEN Some(Take(list, n_movies)
                                        [Len(Take(list, n_movies))])
                            ELSE None,
     error              |-> err]

(***************************************************************************)
(* The dict returned by _async_update_data (feed_url is fixed, last_update *)
(* is the wall clock; neither is modelled).  error is NoError when the     *)
(* dict has no "error" key.                                                *)
(***************************************************************************)
OutputWindow(list, n_movies, n_devices, err) ==
    [movies             |-> Take(list, n_movies),
     movies_for_devices |-> Take(list, n_devices),
     latest_movie       |-> IF Take(list, n_movies) # <<>>
                            THEN Some(Take(list, n_movies)[1])
                            ELSE None,
     error              |-> err]

(***************************************************************************)
(* State.                                                                  *)
(***************************************************************************)
VARIABLES store,   \* the Store blob: None, or Some([movies |-> <<...>>])
    data,         \* what the last returning cycle returned (None before)
    outcome,      \* how the last cycle ended
    merge,        \* what the merge loop of the last cycle did
    maxDropped,   \* greatest date_added the cap has dropped so far (0: none)
    feed_config,  \* the feed_config dict the coordinator was built from
    max_movies,   \* self.max_movies
    max_devices,  \* self.max_devices
    feeds,             \* LetterboxdDataUpdateCoordinator.feeds
    feed_coordinators, \* its dict, as the sequence of its items
    blobs,             \* storage key -> blob, for the keys of the set
    cycles,            \* coordinator -> the calls of _async_update_data in progress
    startup,           \* the manager's async_config_entry_first_refresh
    first_done,        \* coordinators whose first refresh has returned
    firstStarted,      \* coordinators in the order their first refresh started
    alone,             \* coordinator -> blob its own saves alone would have left
    flow_feeds,        \* LetterboxdConfigFlow.feeds
    flow_data,         \* LetterboxdConfigFlow.data, once the entry is created
    flow_step,         \* the form the flow shows, or "created"
    flow_errors,       \* the errors dict of the form shown: None or one item
    submitted,         \* the stripped URL of the last submission of the form
    last_fetch,        \* what validate_feed fetched in the last submission
    raw_feed,          \* the entries feedparser delivers to the cycles
    coordinator_data,  \* coordinator -> its data attribute (None before a return)
    aggregated         \* what the last read of the manager's data returned

\* what __init__ sets once and no cycle writes
cfgVars == <<feed_config, max_movies, max_devices>>

\* the state of the one coordinator of the first part of the model
feedVars == <<store, data, outcome, merge, maxDropped, cfgVars>>

\* the state of a feed set (LetterboxdDataUpdateCoordinator)
setVars == <<feeds, feed_coordinators, blobs, cycles, startup, first_done,
             firstStarted, alone>>

\* the state of a setup flow (LetterboxdConfigFlow)
flowVars == <<flow_feeds, flow_data, flow_step, flow_errors, submitted,
              last_fetch>>

\* the data attributes and the readers of the aggregated output
aggVars == <<coordinator_data, aggregated>>

vars == <<feedVars, setVars, flowVars, raw_feed, aggVars>>

\* what the cycles of the one coordinator never write
elseVars == <<setVars, flowVars, raw_feed, aggVars>>

\* what the feed set never writes
notSetVars == <<feedVars, flowVars, raw_feed, aggVars>>

\* what the setup flow never writes
notFlowVars == <<feedVars, setVars, raw_feed, aggVars>>

\* no feed set: the one coordinator is looked at on its own
NoFeedSet ==
    /\ feeds = <<>>
    /\ feed_coordinators = <<>>
    /\ blobs = <<>>
    /\ cycles = <<>>
    /\ startup = [pc |-> "done", pos |-> 1, awaiting |-> FALSE]
    /\ first_done = {}
    /\ firstStarted = <<>>
    /\ alone = <<>>

\* no output is read
NoAgg ==
    /\ coordinator_data = <<>>
    /\ aggregated = None

\* no setup flow in progress
NoFlow ==
    /\ flow_feeds = <<>>
    /\ flow_data = None
    /\ flow_step = "created"
    /\ flow_errors = None
    /\ submitted = <<>>
    /\ last_fetch = None

FailureOutcomes == {"http_error", "client_error", "exception"}
Outcomes == {"none", "success", "raised"} \cup FailureOutcomes

\* feed_config dicts (the two keys __init__ reads for the windows; a key the
\* dict does not hold is None): both keys set with a device window larger
\* than the movie window, max_devices not set, max_movies not set
FeedConfigs ==
    {[max_movies |-> Some(1), max_devices |-> Some(MaxWindow)],
     [max_movies |-> Some(1), max_devices |-> None],
     [max_movies |-> None,    max_devices |-> Some(1)]}

\* dict.get(key, default)
Get(value, default) == IF value = None THEN default ELSE value[1]

\* line 55
MaxMoviesOf(fc) == Get(fc.max_movies, DEFAULT_MAX_MOVIES)

\* faulty variant: the default of max_devices is the constant
MaxDevicesDefaultConstant(fc) == Get(fc.max_devices, DEFAULT_MAX_MOVIES)

\* lines 56-58
MaxDevicesOf(fc) ==
    Get(fc.max_devices, Get(fc.max_movies, DEFAULT_MAX_MOVIES))

MaxOf(S) == CHOOSE x \in S : \A y \in S : y <= x

Init ==
    /\ store = None
    /\ data = None
    /\ outcome = "none"
    /\ merge = "none"
    /\ maxDropped = 0
    /\ feed_config \in FeedConfigs
    /\ max_movies = MaxMoviesOf(feed_config)
    /\ max_devices = MaxDevicesOf(feed_config)
    /\ NoFeedSet
    /\ NoFlow
    /\ NoAgg
    /\ raw_feed = <<>>

(***************************************************************************)
(* The three fallback paths: no write, window over the stored list.        *)
(***************************************************************************)
\* the fallback of the revisions without a stored history: nothing to show
FallbackEmpty(err) ==
    OutputWindow(<<>>, max_movies, max_devices, err)

\* lines 86-96, 164-174, 177-187
Fallback(err) ==
    OutputWindow(LoadStored(store), max_movies, max_devices, err)

\* faulty variant: the fallback path writes the loaded list back
HttpErrorCycleSaving ==
    /\ data' = Some(Fallback("HTTP"))
    /\ outcome' = "http_error"
    /\ store' = Some([movies |-> LoadStored(store)])
    /\ merge' = "none"
    /\ UNCHANGED <<maxDropped, cfgVars, elseVars>>

\* lines 82-96: response.status != 200
HttpErrorCycle ==
    /\ data' = Some(Fallback("HTTP"))
    /\ outcome' = "http_error"
    /\ merge' = "none"
    /\ UNCHANGED <<store, maxDropped, cfgVars, elseVars>>

\* lines 162-174: aiohttp.ClientError
ClientErrorCycle ==
    /\ data' = Some(Fallback("ClientError"))
    /\ outcome' = "client_error"
    /\ merge' = "none"
    /\ UNCHANGED <<store, maxDropped, cfgVars, elseVars>>

\* faulty variant: the fallback path writes the window it returns
ExceptionCycleSavingWindow ==
    /\ data' = Some(Fallback("Exception"))
    /\ outcome' = "exception"
    /\ store' = Some([movies |-> Take(LoadStored(store), max_movies)])
    /\ merge' = "none"
    /\ UNCHANGED <<maxDropped, cfgVars, elseVars>>

\* lines 175-187: any other Exception (the 30 s timeout, a failure while the
\* feed is parsed); what rss_movies holds by then is not used
ExceptionCycle ==
    /\ data' = Some(Fallback("Exception"))
    /\ outcome' = "exception"
    /\ merge' = "none"
    /\ UNCHANGED <<store, maxDropped, cfgVars, elseVars>>

\* lines 86, 164, 177: _load_stored raises inside a fallback path; nothing
\* catches it, the cycle returns nothing
FallbackLoadRaises ==
    /\ outcome' = "raised"
    /\ merge' = "none"
    /\ UNCHANGED <<store, data, maxDropped, cfgVars, elseVars>>

(***************************************************************************)
(* The successful cycle, lines 98-160 and 189-216.                         *)
(***************************************************************************)
\* the blob a successful cycle on feed rss_movies leaves
StoreAfter(blob, rss_movies) ==
    Some([movies |-> MergedHistory(LoadStored(blob), rss_movies)])

SuccessCycleOn(rss_movies) ==
    LET stored_list == LoadStored(store)
        merged      == MergeRss(stored_list, rss_movies)
        kept        == StoreAfter(store, rss_movies)[1].movies
        gone        == Range(merged) \ Range(kept)
    IN /\ store' = Some([movies |-> kept])
       /\ data' = Some(OutputWindow(kept, max_movies, max_devices, NoError))
       /\ outcome' = "success"
       /\ merge' = IF rss_movies = <<>> THEN "empty_feed"
                   ELSE IF Len(merged) - Len(stored_list) = Len(rss_movies)
                        THEN "all_appended"
                        ELSE "some_blocked"
       /\ maxDropped' = MaxOf({maxDropped} \cup {m.date_added : m \in gone})
       /\ UNCHANGED <<cfgVars, elseVars>>

SuccessCycle == \E rss_movies \in Feeds : SuccessCycleOn(rss_movies)

\* line 190: _load_stored raises outside the try block
MergeLoadRaises ==
    /\ outcome' = "raised"
    /\ merge' = "none"
    /\ UNCHANGED <<store, data, maxDropped, cfgVars, elseVars>>

\* line 204: _save_stored raises outside the try block; the blob is kept
MergeSaveRaises ==
    /\ outcome' = "raised"
    /\ merge' = "none"
    /\ UNCHANGED <<store, data, maxDropped, cfgVars, elseVars>>

Next ==
    \/ HttpErrorCycle
    \/ ClientErrorCycle
    \/ ExceptionCycle
    \/ FallbackLoadRaises
    \/ SuccessCycle
    \/ MergeLoadRaises
    \/ MergeSaveRaises

Spec == Init /\ [][Next]_vars

TypeOK ==
    /\ outcome \in Outcomes
    /\ maxDropped \in 0..NumDates
    /\ merge \in {"none", "empty_feed", "all_appended", "some_blocked"}
    /\ Len(store) <= 1
    /\ Len(data) <= 1

StoredMovies == IF store = None THEN <<>> ELSE store[1].movies

SortedDesc(list) ==
    \A i, j \in DOMAIN list : i < j => list[i].date_added >= list[j].date_added

(***************************************************************************)
(* Storage written by an earlier revision: the records carry no unique_id  *)
(* or one of another scheme.  The cycles are those of Spec.                *)
(***************************************************************************)
\* the unique_id a record has in storage before the migration: none, or one
\* that is not the digest of its link and date
LegacyIds(link, date_added) ==
    {None,
     <<ENTRY_ID, FEED_NAME, (Sha256Prefix(link, date_added) + 1) % DigestSpace>>}

LegacyRecords ==
    UNION {{[MovieData("A", l, d) EXCEPT !.unique_id = u]
              : u \in LegacyIds(l, d)} : <<l, d>> \in Links \X Dates}

\* the blobs an earlier revision left: one record per link, latest first
LegacyBlobs ==
    {Some([movies |-> list]) :
        list \in {h \in BoundedSeq(LegacyRecords, MaxLegacy) :
                    /\ h # <<>>
                    /\ Cardinality(LinksOf(h)) = Len(h)
                    /\ SortedDesc(h)}}

InitMigrate ==
    /\ store \in LegacyBlobs
    /\ data = None
    /\ outcome = "none"
    /\ merge = "none"
    /\ maxDropped = 0
    /\ feed_config = [max_movies |-> Some(1), max_devices |-> Some(MaxWindow)]
    /\ max_movies = MaxMoviesOf(feed_config)
    /\ max_devices = MaxDevicesOf(feed_config)
    /\ NoFeedSet
    /\ NoFlow
    /\ NoAgg
    /\ raw_feed = <<>>

SpecMigrate == InitMigrate /\ [][Next]_vars

(***************************************************************************)
(* The feed set: LetterboxdDataUpdateCoordinator and the coordinators it   *)
(* builds, one per configured feed.  Here one step is one stretch of a     *)
(* coroutine between two awaits.                                           *)
(***************************************************************************)
STORE_KEY_PREFIX == "letterboxd"

FeedNames == 1..NumNames

\* config_entry.data["feeds"]: the i-th feed has the URL i (the setup form
\* admits no URL twice) and a display name or none
FeedLists ==
    UNION {[1..n -> {[url |-> 0, name |-> None]}
                    \cup {[url |-> 0, name |-> Some(x)] : x \in FeedNames}]
           : n \in 1..MaxFeeds}

WithUrls(list) == [i \in DOMAIN list |-> [list[i] EXCEPT !.url = i]]

\* lines 52 and 254: feed_config.get(CONF_FEED_NAME, <the URL>)
FeedNameOf(fc) == Get(fc.name, fc.url)

\* faulty variant: one key for the whole config entry
StoreKeyPerEntry(entry_id, feed_name) ==
    <<STORE_KEY_PREFIX, entry_id, 0>>

\* lines 59-63: f"{STORE_KEY_PREFIX}_{entry_id}_{self.feed_name}.json"
StoreKey(entry_id, feed_name) ==
    <<STORE_KEY_PREFIX, entry_id, feed_name>>

\* faulty variant: a name the dict holds keeps its first coordinator
RECURSIVE RegisterKeepingFirst(_, _, _)
RegisterKeepingFirst(dict, feed_list, i) ==
    IF i > Len(feed_list)
    THEN dict
    ELSE LET feed_name == FeedNameOf(feed_list[i])
             at == {k \in DOMAIN dict : dict[k].name = feed_name}
         IN RegisterKeepingFirst(
                IF at = {}
                THEN Append(dict, [name |-> feed_name, feed |-> i])
                ELSE dict,
                feed_list, i + 1)

\* lines 253-258: self.feed_coordinators[feed_name] = coordinator, for the
\* feeds from the i-th on.  An item of the dict is its key and the feed the
\* coordinator was built from; assigning to a key the dict holds replaces
\* the value where the key stands.
RECURSIVE Register(_, _, _)
Register(dict, feed_list, i) ==
    IF i > Len(feed_list)
    THEN dict
    ELSE LET feed_name == FeedNameOf(feed_list[i])
             at == {k \in DOMAIN dict : dict[k].name = feed_name}
         IN Register(IF at = {}
                     THEN Append(dict, [name |-> feed_name, feed |-> i])
                     ELSE [k \in DOMAIN dict |->
                             IF k \in at
                             THEN [name |-> feed_name, feed |-> i]
                             ELSE dict[k]],
                     feed_list, i + 1)

\* the storage key of the c-th coordinator of the dict
KeyOf(c) == StoreKey(ENTRY_ID, feed_coordinators[c].name)

Coordinators == DOMAIN feed_coordinators

\* what the feeds of the set deliver: documents of one entry
SetEntries == {MovieData("A", l, l) : l \in 1..NumSetLinks}
SetFeeds == {<<e>> : e \in SetEntries}

Slots == 1..MaxInflight

\* a call of _async_update_data: where it stands (idle: no call), whether
\* the manager's first refresh awaits it, the parsed feed, the merged list
IdleCycle ==
    [pc |-> "idle", first |-> FALSE, rss_movies |-> <<>>, stored_list |-> <<>>]

Busy(c) == {s \in Slots : cycles[c][s].pc # "idle"}

InitSet ==
    /\ \E list \in FeedLists :
          /\ feeds = WithUrls(list)
          /\ feed_coordinators = Register(<<>>, WithUrls(list), 1)
    /\ blobs = [k \in {KeyOf(c) : c \in Coordinators} |-> None]
    /\ cycles = [c \in Coordinators |-> [s \in Slots |-> IdleCycle]]
    /\ startup = [pc |-> "running", pos |-> 1, awaiting |-> FALSE]
    /\ first_done = {}
    /\ firstStarted = <<>>
    /\ alone = [c \in Coordinators |-> None]
    /\ store = None
    /\ data = None
    /\ outcome = "none"
    /\ merge = "none"
    /\ maxDropped = 0
    /\ feed_config = [max_movies |-> None, max_devices |-> None]
    /\ max_movies = MaxMoviesOf(feed_config)
    /\ max_devices = MaxDevicesOf(feed_config)
    /\ NoFlow
    /\ NoAgg
    /\ raw_feed = <<>>

\* faulty variant: the first refreshes are started without awaiting any
ManagerStartsAllAtOnce == TRUE

\* line 263: the loop goes on when the awaited first refresh has returned
ManagerMayRefreshNext == ~startup.awaiting

\* lines 262-263: the loop reaches the next coordinator of the dict and
\* calls its first refresh, which runs up to the await of the fetch
FirstRefreshNext ==
    /\ startup.pc = "running"
    /\ ManagerMayRefreshNext
    /\ startup.pos <= Len(feed_coordinators)
    /\ cycles' = [cycles EXCEPT ![startup.pos][1] =
                     [IdleCycle EXCEPT !.pc = "fetch", !.first = TRUE]]
    /\ startup' = [startup EXCEPT !.pos = @ + 1, !.awaiting = TRUE]
    /\ firstStarted' = Append(firstStarted, startup.pos)
    /\ UNCHANGED <<feeds, feed_coordinators, blobs, first_done, alone, notSetVars>>

\* lines 262-263: the loop is exhausted, the startup step returns
StartupReturns ==
    /\ startup.pc = "running"
    /\ ManagerMayRefreshNext
    /\ startup.pos > Len(feed_coordinators)
    /\ startup' = [startup EXCEPT !.pc = "done"]
    /\ UNCHANGED <<feeds, feed_coordinators, blobs, cycles, first_done,
                   firstStarted, alone, notSetVars>>

\* faulty variant: a refresh is started whatever is in progress
SchedulerAllowsOverlap(c) == TRUE

\* the update timer of a coordinator is armed when its refresh has finished
SchedulerAllows(c) == Busy(c) = {}

\* a periodic refresh of coordinator c starts (update_interval of line 69)
StartCycle(c) ==
    /\ c \in first_done
    /\ SchedulerAllows(c)
    /\ \E s \in Slots :
          /\ cycles[c][s].pc = "idle"
          /\ \A t \in Slots : t < s => cycles[c][t].pc # "idle"
          /\ cycles' = [cycles EXCEPT ![c][s] = [IdleCycle EXCEPT !.pc = "fetch"]]
    /\ UNCHANGED <<feeds, feed_coordinators, blobs, startup, first_done,
                   firstStarted, alone, notSetVars>>

\* the call in slot s of coordinator c ends: what its awaiter sees
Finished(c, s, raised) ==
    IF cycles[c][s].first
    THEN /\ startup' = [startup EXCEPT
                           !.awaiting = FALSE,
                           !.pc = IF raised THEN "failed" ELSE @]
         /\ first_done' = IF raised THEN first_done ELSE first_done \cup {c}
    ELSE UNCHANGED <<startup, first_done>>

\* lines 79-160: status 200, the document parsed into rss_movies
FetchOk(c, s) ==
    /\ cycles[c][s].pc = "fetch"
    /\ \E rss_movies \in SetFeeds :
          cycles' = [cycles EXCEPT ![c][s].pc = "load",
                                   ![c][s].rss_movies = rss_movies]
    /\ UNCHANGED <<feeds, feed_coordinators, blobs, startup, first_done,
                   firstStarted, alone, notSetVars>>

\* lines 82-96, 162-187: the fetch fails, the stored list is loaded from the
\* coordinator's own key and returned; nothing is written
FetchFails(c, s) ==
    /\ cycles[c][s].pc = "fetch"
    /\ cycles' = [cycles EXCEPT ![c][s] = IdleCycle]
    /\ Finished(c, s, FALSE)
    /\ UNCHANGED <<feeds, feed_coordinators, blobs, firstStarted, alone, notSetVars>>

\* lines 190-203: the blob of the coordinator's own key is loaded and the
\* feed merged into it, up to the await of the save
LoadAndMerge(c, s) ==
    /\ cycles[c][s].pc = "load"
    /\ cycles' = [cycles EXCEPT
                     ![c][s].pc = "save",
                     ![c][s].stored_list =
                         MergedHistory(LoadStored(blobs[KeyOf(c)]),
                                       cycles[c][s].rss_movies)]
    /\ UNCHANGED <<feeds, feed_coordinators, blobs, startup, first_done,
                   firstStarted, alone, notSetVars>>

\* lines 204-216: the merged list is written to the coordinator's own key
\* and the cycle returns
Save(c, s) ==
    /\ cycles[c][s].pc = "save"
    /\ blobs' = [blobs EXCEPT
                    ![KeyOf(c)] = Some([movies |-> cycles[c][s].stored_list])]
    /\ alone' = [alone EXCEPT
                    ![c] = StoreAfter(alone[c], cycles[c][s].rss_movies)]
    /\ cycles' = [cycles EXCEPT ![c][s] = IdleCycle]
    /\ Finished(c, s, FALSE)
    /\ UNCHANGED <<feeds, feed_coordinators, firstStarted, notSetVars>>

\* lines 190, 204: the load or the save raises, and so does the cycle
CycleRaises(c, s) ==
    /\ cycles[c][s].pc \in {"load", "save"}
    /\ cycles' = [cycles EXCEPT ![c][s] = IdleCycle]
    /\ Finished(c, s, TRUE)
    /\ UNCHANGED <<feeds, feed_coordinators, blobs, firstStarted, alone, notSetVars>>

NextSet ==
    \/ FirstRefreshNext
    \/ StartupReturns
    \/ \E c \in Coordinators : StartCycle(c)
    \/ \E c \in Coordinators, s \in Slots : FetchOk(c, s)
    \/ \E c \in Coordinators, s \in Slots : FetchFails(c, s)
    \/ \E c \in Coordinators, s \in Slots : LoadAndMerge(c, s)
    \/ \E c \in Coordinators, s \in Slots : Save(c, s)
    \/ \E c \in Coordinators, s \in Slots : CycleRaises(c, s)

SpecSet == InitSet /\ [][NextSet]_vars

(***************************************************************************)
(* The aggregated output: the data property of the manager, read by the    *)
(* entities.  A coordinator's data attribute is what its last returning    *)
(* refresh returned; here a refresh is one step.                           *)
(***************************************************************************)
\* what a refresh can return: the window over a history of one entry, or
\* the window of a failed fetch over an empty history
RefreshOutputs ==
    {OutputWindow(<<e>>, DEFAULT_MAX_MOVIES, DEFAULT_MAX_MOVIES, NoError)
        : e \in SetEntries}
    \cup {OutputWindow(<<>>, DEFAULT_MAX_MOVIES, DEFAULT_MAX_MOVIES, "HTTP")}

notAggVars == <<feedVars, setVars, flowVars, raw_feed>>

InitAgg ==
    /\ \E list \in FeedLists :
          /\ feeds = WithUrls(list)
          /\ feed_coordinators = Register(<<>>, WithUrls(list), 1)
    /\ blobs = [k \in {KeyOf(c) : c \in Coordinators} |-> None]
    /\ cycles = [c \in Coordinators |-> [s \in Slots |-> IdleCycle]]
    /\ startup = [pc |-> "done", pos |-> 1, awaiting |-> FALSE]
    /\ first_done = {}
    /\ firstStarted = <<>>
    /\ alone = [c \in Coordinators |-> None]
    /\ store = None
    /\ data = None
    /\ outcome = "none"
    /\ merge = "none"
    /\ maxDropped = 0
    /\ feed_config = [max_movies |-> None, max_devices |-> None]
    /\ max_movies = MaxMoviesOf(feed_config)
    /\ max_devices = MaxDevicesOf(feed_config)
    /\ NoFlow
    /\ raw_feed = <<>>
    /\ coordinator_data = [c \in Coordinators |-> None]
    /\ aggregated = None

\* a refresh of coordinator c returns: the value becomes its data attribute
RefreshReturns(c) ==
    /\ \E output \in RefreshOutputs :
          coordinator_data' = [coordinator_data EXCEPT ![c] = Some(output)]
    /\ UNCHANGED <<aggregated, notAggVars>>

\* lines 267-271: the dict comprehension over feed_coordinators.items(), as
\* the sequence of its items
AggregatedData ==
    [c \in Coordinators |->
        [name |-> feed_coordinators[c].name, data |-> coordinator_data[c]]]

\* lines 265-271: an entity reads the data property
ReadData ==
    /\ aggregated' = Some(AggregatedData)
    /\ UNCHANGED <<coordinator_data, notAggVars>>

NextAgg ==
    \/ \E c \in Coordinators : RefreshReturns(c)
    \/ ReadData

SpecAgg == InitAgg /\ [][NextAgg]_vars

(***************************************************************************)
(* The setup flow: validate_feed and LetterboxdConfigFlow (config_flow.py).*)
(* One step is one submission of a form.                                   *)
(***************************************************************************)
\* A string typed into the form is a sequence of characters; the character
\* 0 is white space.  str.strip():
RECURSIVE LStrip(_)
LStrip(str) ==
    IF str # <<>> /\ Head(str) = 0 THEN LStrip(Tail(str)) ELSE str

RECURSIVE RStrip(_)
RStrip(str) ==
    IF str # <<>> /\ str[Len(str)] = 0
    THEN RStrip(SubSeq(str, 1, Len(str) - 1))
    ELSE str

Strip(str) == RStrip(LStrip(str))

\* what a user types as the URL: nothing, blanks, a URL, a padded URL
FormUrls ==
    {<<>>, <<0>>} \cup UNION {{<<u>>, <<0, u>>, <<u, 0>>} : u \in 1..NumFlowUrls}

\* what a user types as the display name: nothing, or a name
FormNames == {<<>>} \cup {<<n>> : n \in FeedNames}

\* line 49: the title of a feed that states none ("Letterboxd Feed")
LetterboxdFeedTitle == <<NumNames + 1>>

\* What the one fetch of validate_feed meets: session.get raising a
\* ClientError or timing out, a response with a status, a body that cannot
\* be read or decoded, and the decoded feed (for each entry, whether its link
\* contains "letterboxd.com"; the feed's title, if it has one).
ValidateFetches ==
    {[kind |-> k, status |-> 0, entries |-> <<>>, title |-> None] :
        k \in {"client_error", "timeout"}}
    \cup {[kind |-> "response", status |-> st, entries |-> <<>>, title |-> None] :
            st \in {404, 500}}
    \cup {[kind |-> k, status |-> 200, entries |-> <<>>, title |-> None] :
            k \in {"payload_error", "decode_error"}}
    \cup {[kind |-> "response", status |-> 200, entries |-> e, title |-> t] :
            e \in BoundedSeq(BOOLEAN, MaxValidated), t \in {None, Some(<<1>>)}}

\* faulty variant: every entry of the feed is looked at
AnyEntryMatches(entries) ==
    \E i \in DOMAIN entries : entries[i]

\* line 46: any("letterboxd.com" in entry.get("link", "")
\*              for entry in feed.entries[:3])
AnyOfFirstThree(entries) ==
    \E i \in DOMAIN Take(entries, 3) : entries[i]

\* lines 34-49: the exception raised inside the try block ("none": the
\* return of line 49 is reached)
RaisedInTry(fetch) ==
    CASE fetch.kind = "client_error"  -> "ClientError"
      [] fetch.kind = "timeout"       -> "TimeoutError"
      [] fetch.status # 200           -> "CannotConnect"
      [] fetch.kind = "payload_error" -> "ClientError"
      [] fetch.kind = "decode_error"  -> "UnicodeDecodeError"
      [] fetch.entries = <<>>         -> "InvalidFeed"
      [] ~AnyOfFirstThree(fetch.entries) -> "InvalidFeed"
      [] OTHER                        -> "none"

\* isinstance(err, aiohttp.ClientError); CannotConnect and InvalidFeed are
\* HomeAssistantErrors (lines 154-159)
IsClientError(exc) == exc = "ClientError"

\* lines 32-54: what validate_feed raises, or the title it returns
ValidateFeed(fetch) ==
    LET exc == RaisedInTry(fetch)
    IN IF exc = "none"
       THEN [raised |-> "none", title |-> Get(fetch.title, LetterboxdFeedTitle)]
       ELSE IF IsClientError(exc)
            THEN [raised |-> "CannotConnect", title |-> <<>>]
            ELSE [raised |-> "InvalidFeed", title |-> <<>>]

UrlsOf(list) == {list[i].url : i \in DOMAIN list}

\* faulty variant: no submission is taken for a repetition
UrlNeverAlreadyAdded(feed_url, list) == FALSE

\* line 79
UrlAlreadyAdded(feed_url, list) == feed_url \in UrlsOf(list)

FormError(key, code) == Some([key |-> key, code |-> code])

InitFlow ==
    /\ flow_feeds = <<>>
    /\ flow_data = None
    /\ flow_step = "user"
    /\ flow_errors = None
    /\ submitted = <<>>
    /\ last_fetch = None
    /\ store = None
    /\ data = None
    /\ outcome = "none"
    /\ merge = "none"
    /\ maxDropped = 0
    /\ feed_config = [max_movies |-> None, max_devices |-> None]
    /\ max_movies = MaxMoviesOf(feed_config)
    /\ max_devices = MaxDevicesOf(feed_config)
    /\ NoFeedSet
    /\ NoAgg
    /\ raw_feed = <<>>

\* lines 73-80: the URL is empty or already in the list; the form is shown
\* again with the error
SubmitRejected(feed_url) ==
    /\ feed_url = <<>> \/ UrlAlreadyAdded(feed_url, flow_feeds)
    /\ flow_errors' = IF feed_url = <<>>
                      THEN FormError("feed_url", "feed_url_required")
                      ELSE FormError("feed_url", "feed_already_added")
    /\ last_fetch' = None
    /\ UNCHANGED <<flow_feeds, flow_data, flow_step>>

\* lines 81-106: the feed is validated; a valid feed is appended and the
\* add_another form is shown, else the user form again with the error
SubmitValidated(feed_url, feed_name, fetch) ==
    /\ feed_url # <<>>
    /\ ~UrlAlreadyAdded(feed_url, flow_feeds)
    /\ last_fetch' = Some(fetch)
    /\ LET feed_info == ValidateFeed(fetch)
       IN IF feed_info.raised = "none"
          THEN /\ flow_feeds' =
                     Append(flow_feeds,
                            [url  |-> feed_url,
                             name |-> IF feed_name = <<>>
                                      THEN feed_info.title
                                      ELSE feed_name])
               /\ flow_step' = "add_another"
               /\ flow_errors' = None
          ELSE /\ flow_errors' =
                     IF feed_info.raised = "CannotConnect"
                     THEN FormError("base", "cannot_connect")
                     ELSE FormError("base", "invalid_feed")
               /\ UNCHANGED <<flow_feeds, flow_step>>
    /\ UNCHANGED flow_data

\* async_step_user with a user_input (scan interval, max_movies and the
\* expose flag are copied into the feed and not modelled)
SubmitUser ==
    /\ flow_step = "user"
    /\ \E url_in \in FormUrls, name_in \in FormNames :
          /\ submitted' = Strip(url_in)
          /\ \/ SubmitRejected(Strip(url_in))
             \/ \E fetch \in ValidateFetches :
                   SubmitValidated(Strip(url_in), Strip(name_in), fetch)
    /\ UNCHANGED notFlowVars

\* async_step_add_another with a user_input: back to the user form, or the
\* entry is created from the list
SubmitAddAnother ==
    /\ flow_step = "add_another"
    /\ \E add_another \in BOOLEAN :
          IF add_another
          THEN /\ flow_step' = "user"
               /\ UNCHANGED flow_data
          ELSE /\ flow_step' = "created"
               /\ flow_data' = Some(flow_feeds)
    /\ flow_errors' = None
    /\ last_fetch' = None
    /\ submitted' = <<>>
    /\ UNCHANGED <<flow_feeds, notFlowVars>>

NextFlow ==
    \/ SubmitUser
    \/ SubmitAddAnother

SpecFlow == InitFlow /\ [][NextFlow]_vars

(***************************************************************************)
(* The normalisation loop of _async_update_data, lines 101-160: from an    *)
(* entry as feedparser delivers it to movie_data.                          *)
(*                                                                         *)
(* A title is a sequence of tokens: "w" a word, " " white space, "," "-"   *)
(* "(" ")" themselves, "star" the character U+2605, "half" the character   *)
(* U+00BD, "1999" a group of four digits.                                  *)
(***************************************************************************)
TitleTokens == {"w", " ", ",", "-", "(", ")", "star", "half", "1999"}
YearTokens == {"1999"}

\* int(year_match.group(1))
YearValue(token) == 1999

Titles == BoundedSeq(TitleTokens, MaxTitleLen)

\* str.strip() on a title
RECURSIVE LStripTitle(_)
LStripTitle(title) ==
    IF title # <<>> /\ Head(title) = " " THEN LStripTitle(Tail(title)) ELSE title

RECURSIVE RStripTitle(_)
RStripTitle(title) ==
    IF title # <<>> /\ title[Len(title)] = " "
    THEN RStripTitle(SubSeq(title, 1, Len(title) - 1))
    ELSE title

StripTitle(title) == RStripTitle(LStripTitle(title))

\* str.count
Count(title, token) == Cardinality({i \in DOMAIN title : title[i] = token})

MinOf(S) == CHOOSE x \in S : \A y \in S : x <= y

\* lines 106-111.  The rating is counted in half stars: stars + 0.5 is
\* 2 * stars + 1.
ExtractRating(title) ==
    IF "star" \in Range(title)
    THEN [rating |-> Some(2 * Count(title, "star")
                          + (IF "half" \in Range(title) THEN 1 ELSE 0)),
          title  |-> StripTitle(SubSeq(title, 1,
                        MinOf({i \in DOMAIN title : title[i] = "star"}) - 1))]
    ELSE [rating |-> None, title |-> title]

\* \s*-?\s*$ matches the whole of rest
MatchesDashTail(rest) ==
    /\ Range(rest) \subseteq {" ", "-"}
    /\ Count(rest, "-") <= 1

\* r',\s*(\d{4})\s*-?\s*$' matches from token i, its group being token j
CommaYearMatch(title, i, j) ==
    /\ title[i] = ","
    /\ i < j
    /\ \A k \in (i + 1)..(j - 1) : title[k] = " "
    /\ title[j] \in YearTokens
    /\ MatchesDashTail(SubSeq(title, j + 1, Len(title)))

\* r'\((\d{4})\)' matches from token i
ParenYearMatch(title, i) ==
    /\ title[i] = "("
    /\ i + 2 <= Len(title)
    /\ title[i + 1] \in YearTokens
    /\ title[i + 2] = ")"

\* lines 113-123
ExtractYear(title) ==
    LET comma == {ij \in (DOMAIN title) \X (DOMAIN title) :
                     CommaYearMatch(title, ij[1], ij[2])}
        paren == {i \in DOMAIN title : ParenYearMatch(title, i)}
    IN IF comma # {}
       THEN LET ij == CHOOSE m \in comma : \A n \in comma : m[1] <= n[1]
            IN [year  |-> Some(YearValue(title[ij[2]])),
                title |-> StripTitle(SubSeq(title, 1, ij[1] - 1))]
       ELSE IF "(" \in Range(title) /\ ")" \in Range(title)
            THEN [year  |-> IF paren = {}
                            THEN None
                            ELSE Some(YearValue(title[MinOf(paren) + 1])),
                  title |-> StripTitle(SubSeq(title, 1,
                               MaxOf({i \in DOMAIN title : title[i] = "("}) - 1))]
            ELSE [year |-> None, title |-> StripTitle(title)]

\* A content block or a summary: whether its text holds "img" in any case,
\* and the src the regular expression of lines 129-132 finds in it, if any.
TextBlocks ==
    {[img |-> FALSE, src |-> None],
     [img |-> TRUE,  src |-> None],
     [img |-> TRUE,  src |-> Some(1)],
     [img |-> TRUE,  src |-> Some(2)]}

\* lines 127-134: the loop over entry.content, from image_url so far
RECURSIVE ImageOfContent(_, _)
ImageOfContent(content, image_url) ==
    IF content = <<>>
    THEN image_url
    ELSE ImageOfContent(Tail(content),
                        IF Head(content).img /\ Head(content).src # None
                        THEN Head(content).src
                        ELSE image_url)

\* lines 125-141; entry.summary is None when the entry has no summary
ExtractImage(entry) ==
    IF entry.content # <<>>
    THEN ImageOfContent(entry.content, None)
    ELSE IF entry.summary # None
         THEN entry.summary[1].src
         ELSE None

\* published_parsed: None, or a time tuple that datetime() accepts (iso is
\* then its isoformat()) or refuses with a ValueError.  published: the raw
\* date string, 0 being the empty string of a missing one.
DateInputs ==
    {[published_parsed |-> pp, published |-> p] :
        pp \in {None, Some([valid |-> FALSE, iso |-> 0])}
               \cup {Some([valid |-> TRUE, iso |-> d]) : d \in Dates},
        p \in {0, NumDates + 1}}

\* faulty variant: datetime() is called outside any try
ExtractDateUnguarded(entry) ==
    IF entry.published_parsed # None
    THEN IF entry.published_parsed[1].valid
         THEN [raised |-> FALSE, date_added |-> entry.published_parsed[1].iso]
         ELSE [raised |-> TRUE, date_added |-> 0]
    ELSE [raised |-> FALSE, date_added |-> entry.published]

\* lines 143-149: the ValueError is caught, date_added stays None and the
\* raw string is taken
ExtractDate(entry) ==
    IF entry.published_parsed # None /\ entry.published_parsed[1].valid
    THEN [raised |-> FALSE, date_added |-> entry.published_parsed[1].iso]
    ELSE [raised |-> FALSE, date_added |-> entry.published]

\* lines 102-160: one pass of the loop body; raised says whether an
\* exception leaves it
Normalize(entry) ==
    LET rated == ExtractRating(StripTitle(entry.title))
        dated == ExtractYear(rated.title)
        date  == ExtractDate(entry)
    IN [raised |-> date.raised,
        movie  |-> [movie_title |-> dated.title,
                    rating      |-> rated.rating,
                    year        |-> dated.year,
                    image_url   |-> ExtractImage(entry),
                    date_added  |-> date.date_added,
                    link        |-> entry.link,
                    unique_id   |-> MovieUniqueId(entry.link, date.date_added)]]

RawEntry(title, link, content, summary, date) ==
    [title |-> title, link |-> link, content |-> content, summary |-> summary,
     published_parsed |-> date.published_parsed, published |-> date.published]

\* an entry in which every extraction succeeds, and one in which none does
GoodEntry(link) ==
    RawEntry(<<"w", ",", "1999", "-", "star", "half">>, link,
             <<[img |-> TRUE, src |-> Some(1)]>>, None,
             [published_parsed |-> Some([valid |-> TRUE, iso |-> link]),
              published |-> NumDates + 1])

PoorEntry(link) ==
    RawEntry(<<"w">>, link, <<>>, None,
             [published_parsed |-> Some([valid |-> FALSE, iso |-> 0]),
              published |-> 0])

\* longer titles: "Dune, 2021 ****1/2", "Oldboy (2003)", "Brazil (Final Cut)",
\* "Ran (1985), 1999 - ***", "*, 2016 - *****" (a film named with the glyph)
SampleTitles ==
    {<<"w", ",", " ", "1999", " ", "star", "star", "star", "star", "half">>,
     <<"w", " ", "(", "1999", ")">>,
     <<"w", " ", "(", "w", ")">>,
     <<"star", ",", " ", "1999", " ", "-", " ",
       "star", "star", "star", "star", "star">>,
     <<"w", " ", "(", "1999", ")", ",", " ", "1999", " ", "-", " ",
       "star", "star", "star">>}

\* the entries of link 1: every title with the other inputs good, and every
\* combination of content, summary and date under a title with and without
\* a rating and a year
RawEntries ==
    {[GoodEntry(1) EXCEPT !.title = t] : t \in Titles \cup SampleTitles}
    \cup {RawEntry(t, 1, c, s, d) :
            t \in {GoodEntry(1).title, PoorEntry(1).title},
            c \in BoundedSeq(TextBlocks, MaxContent),
            s \in {None} \cup {Some(b) : b \in TextBlocks},
            d \in DateInputs}

\* a document that holds the same link twice: the same entry, or the entry
\* with another date or another title
SameLinkFeeds ==
    LET versions == {GoodEntry(1), PoorEntry(1),
                     [GoodEntry(1) EXCEPT !.title = <<"w">>]}
    IN {<<e, f>> : e \in versions, f \in versions}

\* feed.entries: one entry, or one with a good or poor entry of link 2 before
\* or after it, or the same link twice
RawFeeds ==
    {<<e>> : e \in RawEntries}
    \cup UNION {{<<e, f>>, <<f, e>>} :
                  e \in RawEntries, f \in {GoodEntry(2), PoorEntry(2)}}
    \cup SameLinkFeeds

InitParse ==
    /\ raw_feed \in RawFeeds
    /\ store = None
    /\ data = None
    /\ outcome = "none"
    /\ merge = "none"
    /\ maxDropped = 0
    /\ feed_config = [max_movies |-> None, max_devices |-> None]
    /\ max_movies = MaxMoviesOf(feed_config)
    /\ max_devices = MaxDevicesOf(feed_config)
    /\ NoFeedSet
    /\ NoFlow
    /\ NoAgg

\* rss_movies after the loop
Normalized(entries) == [i \in DOMAIN entries |-> Normalize(entries[i]).movie]

\* a cycle whose fetch succeeds on raw_feed: the loop of lines 101-160, then
\* the merge; an exception leaving the loop is caught at line 175
ParsedCycle ==
    IF \E i \in DOMAIN raw_feed : Normalize(raw_feed[i]).raised
    THEN ExceptionCycle
    ELSE SuccessCycleOn(Normalized(raw_feed))

NextParse ==
    \/ ParsedCycle
    \/ ExceptionCycle

SpecParse == InitParse /\ [][NextParse]_vars

(***************************************************************************)
(* Claims.                                                                 *)
(***************************************************************************)

\* C1: starting from empty storage, after any sequence of cycles the stored
\* history holds no two records with the same link and no two records with
\* the same unique_id.
C1_NoDuplicateLinkOrId ==
    \A i, j \in DOMAIN StoredMovies :
        i # j => /\ StoredMovies[i].link # StoredMovies[j].link
                 /\ StoredMovies[i].unique_id # StoredMovies[j].unique_id

\* a merge that refused an entry left a history of several records
C1_Witness ==
    /\ outcome = "success"
    /\ merge = "some_blocked"
    /\ Len(StoredMovies) >= 2

\* C2: the stored history never holds more than MAX_STORED_MOVIES records.
C2_LengthWithinCap == Len(StoredMovies) <= MAX_STORED_MOVIES

\* the trim has dropped a record and the history is at the cap
C2_Witness ==
    /\ outcome = "success"
    /\ maxDropped > 0
    /\ Len(StoredMovies) = MAX_STORED_MOVIES

\* C3: no retained record has a smaller date_added than a record the cap has
\* dropped, and the cap drops records only from a full history.
C3_RetainedAreMostRecent ==
    /\ \A i \in DOMAIN StoredMovies : StoredMovies[i].date_added >= maxDropped
    /\ maxDropped > 0 => Len(StoredMovies) = MAX_STORED_MOVIES

\* a record was dropped and a strictly more recent one is retained
C3_Witness ==
    /\ maxDropped > 1
    /\ \E i \in DOMAIN StoredMovies : StoredMovies[i].date_added > maxDropped

\* C4: the movies of every returned output, and the stored history, are
\* sorted descending by date_added.
C4_SortedDescending ==
    /\ data # None => SortedDesc(data[1].movies)
    /\ SortedDesc(StoredMovies)

\* a failed cycle returned two movies with different dates
C4_Witness ==
    /\ outcome \in FailureOutcomes
    /\ Len(data[1].movies) >= 2
    /\ data[1].movies[1].date_added > data[1].movies[2].date_added

\* C5: a cycle that ends in a failure outcome leaves the stored blob as it
\* was.
C5_FailureWritesNothing ==
    [][outcome' \in FailureOutcomes => store' = store]_vars

\* a failed cycle has run on a non-empty stored history
C5_Witness ==
    /\ outcome \in FailureOutcomes
    /\ StoredMovies # <<>>
    /\ data[1].error # NoError

\* C6: a returned output has an error iff its cycle's fetch failed, and then
\* its windows are prefixes of the stored history.
C6_ErrorIffFetchFailed ==
    outcome \in FailureOutcomes \cup {"success"} =>
        /\ data # None
        /\ (data[1].error # NoError) <=> (outcome \in FailureOutcomes)
        /\ outcome \in FailureOutcomes =>
              /\ data[1].movies = Take(LoadStored(store), max_movies)
              /\ data[1].movies_for_devices = Take(LoadStored(store), max_devices)

\* a failed cycle returned a non-empty window
C6_Witness ==
    /\ outcome = "exception"
    /\ data[1].error = "Exception"
    /\ data[1].movies_for_devices # <<>>
    /\ Len(data[1].movies_for_devices) > Len(data[1].movies)

\* C7: no cycle lets an exception reach its caller.
C7_NeverRaises == outcome # "raised"

\* the stored records the trim of a cycle on rss_movies drops
DroppedStored(blob, rss_movies) ==
    Range(LoadStored(blob)) \ Range(StoreAfter(blob, rss_movies)[1].movies)

\* C8 as stated: for every stored history and every feed, a second successful
\* cycle on the same feed leaves what the first one left.
C8_MergeIdempotent ==
    \A rss_movies \in Feeds :
        StoreAfter(StoreAfter(store, rss_movies), rss_movies)
            = StoreAfter(store, rss_movies)

\* C8 as amended: a second successful cycle on the same feed leaves what the
\* first one left, unless the first cycle's trim drops a stored record whose
\* link or unique_id an entry of the feed has.
C8_MergeIdempotentUnlessDroppedRecordReturns ==
    \A rss_movies \in Feeds :
        (\A m \in DroppedStored(store, rss_movies) :
            /\ m.link \notin LinksOf(rss_movies)
            /\ m.unique_id \notin IdsOf(rss_movies))
        => StoreAfter(StoreAfter(store, rss_movies), rss_movies)
               = StoreAfter(store, rss_movies)

\* a full history with two records of one date, left by a merge, from which
\* some feed makes the trim drop a stored record that the feed does not name
C8_Witness ==
    /\ outcome = "success"
    /\ merge # "empty_feed"
    /\ Len(StoredMovies) = MAX_STORED_MOVIES
    /\ \E i, j \in DOMAIN StoredMovies :
          i # j /\ StoredMovies[i].date_added = StoredMovies[j].date_added
    /\ \E rss_movies \in Feeds :
          /\ DroppedStored(store, rss_movies) # {}
          /\ \A m \in DroppedStored(store, rss_movies) :
                /\ m.link \notin LinksOf(rss_movies)
                /\ m.unique_id \notin IdsOf(rss_movies)

\* C9: a successful cycle on an empty feed writes back the history that was
\* stored (same records, same order).
C9_EmptyFeedIsNoOp ==
    [][(outcome' = "success" /\ merge' = "empty_feed")
          => StoredMovies' = StoredMovies]_vars

\* an empty feed was merged into a full history with two records of one date
C9_Witness ==
    /\ outcome = "success"
    /\ merge = "empty_feed"
    /\ Len(StoredMovies) = MAX_STORED_MOVIES
    /\ \E i, j \in DOMAIN StoredMovies :
          i # j /\ StoredMovies[i].date_added = StoredMovies[j].date_added

\* C10: whatever the feed, the merge loop appends an entry only if neither
\* its link nor its unique_id occurs in the whole loaded history.
C10_AppendedOnlyIfUnseen ==
    \A rss_movies \in Feeds :
        LET stored_list == LoadStored(store)
            merged      == MergeRss(stored_list, rss_movies)
        IN \A i \in (Len(stored_list) + 1)..Len(merged) :
              /\ merged[i].link \notin LinksOf(stored_list)
              /\ merged[i].unique_id \notin IdsOf(stored_list)

\* a merge refused an entry; the history is longer than the movie window and
\* a record beyond the window has the link of a feed entry with another
\* title and date; a stored unique_id is that of an entry with another link
C10_Witness ==
    /\ outcome = "success"
    /\ merge = "some_blocked"
    /\ \E i \in DOMAIN StoredMovies, e \in ParsedEntries :
          /\ i > max_movies
          /\ e.link = StoredMovies[i].link
          /\ e.movie_title # StoredMovies[i].movie_title
          /\ e.date_added # StoredMovies[i].date_added
    /\ \E i \in DOMAIN StoredMovies, e \in ParsedEntries :
          /\ e.unique_id = StoredMovies[i].unique_id
          /\ e.link # StoredMovies[i].link

\* C11: every returned output is a projection of the stored history as the
\* cycle left it: movies is its first max_movies records, movies_for_devices
\* its first max_devices records (max_devices being max_movies when the
\* configuration does not set it), latest_movie the first record of movies,
\* or none when the history is empty.
C11_WindowIsProjection ==
    data # None =>
        /\ data[1].movies = Take(StoredMovies, max_movies)
        /\ data[1].movies_for_devices =
              Take(StoredMovies,
                   IF feed_config.max_devices = None
                   THEN max_movies
                   ELSE feed_config.max_devices[1])
        /\ data[1].latest_movie =
              IF StoredMovies = <<>> THEN None ELSE Some(data[1].movies[1])

\* a successful cycle left a history longer than the movie window, under a
\* configuration that does not set max_devices
C11_Witness ==
    /\ outcome = "success"
    /\ feed_config.max_devices = None
    /\ Len(StoredMovies) > max_movies
    /\ data[1].latest_movie = Some(StoredMovies[1])

\* the entries of a feed have pairwise different links and dates
PairwiseDifferent(rss_movies) ==
    \A i, j \in DOMAIN rss_movies :
        i # j => /\ rss_movies[i].link # rss_movies[j].link
                 /\ rss_movies[i].date_added # rss_movies[j].date_added

\* a successful cycle on rss_movies, run on the blob, leaves exactly the
\* entries of the feed, and its latest_movie has the greatest date_added
LeavesExactlyTheFeed(blob, rss_movies) ==
    LET kept   == StoreAfter(blob, rss_movies)[1].movies
        output == OutputWindow(kept, max_movies, max_devices, NoError)
    IN /\ Len(kept) = Len(rss_movies)
       /\ Range(kept) = Range(rss_movies)
       /\ rss_movies # <<>> =>
             /\ output.latest_movie # None
             /\ \A i \in DOMAIN rss_movies :
                   rss_movies[i].date_added <= output.latest_movie[1].date_added

\* C12 as stated: with no stored blob, a successful cycle on a feed of at
\* most MAX_STORED_MOVIES entries with pairwise different links and dates
\* leaves exactly those entries, latest_movie being the most recent one.
C12_FirstRunKeepsFeed ==
    store = None =>
        \A rss_movies \in Feeds :
            (Len(rss_movies) <= MAX_STORED_MOVIES /\ PairwiseDifferent(rss_movies))
            => LeavesExactlyTheFeed(store, rss_movies)

\* C12 as amended: the same, for feeds whose entries also have pairwise
\* different unique_ids.
C12_FirstRunKeepsFeedOfDistinctIds ==
    store = None =>
        \A rss_movies \in Feeds :
            (/\ Len(rss_movies) <= MAX_STORED_MOVIES
             /\ PairwiseDifferent(rss_movies)
             /\ Cardinality(IdsOf(rss_movies)) = Len(rss_movies))
            => LeavesExactlyTheFeed(store, rss_movies)

\* the history is what a first run leaves of a feed of two entries with
\* different links, dates and unique_ids, the later dated entry second
C12_Witness ==
    /\ outcome = "success"
    /\ merge = "all_appended"
    /\ maxDropped = 0
    /\ \E rss_movies \in Feeds :
          /\ Len(rss_movies) = 2
          /\ PairwiseDifferent(rss_movies)
          /\ rss_movies[1].date_added < rss_movies[2].date_added
          /\ store = StoreAfter(None, rss_movies)
          /\ data[1].latest_movie = Some(rss_movies[2])

\* C13: the coordinators of a feed set have pairwise different storage keys,
\* and under every interleaving of their cycles the blob of each is the one
\* its own saves alone would have left.
C13_DisjointKeysIsolatedHistories ==
    /\ \A c, d \in Coordinators : c # d => KeyOf(c) # KeyOf(d)
    /\ \A c \in Coordinators : blobs[KeyOf(c)] = alone[c]

\* two coordinators hold different histories, one of them is about to save
\* while the other has a cycle in progress
C13_Witness ==
    \E c, d \in Coordinators :
        /\ c # d
        /\ blobs[KeyOf(c)] # None
        /\ blobs[KeyOf(d)] # None
        /\ blobs[KeyOf(c)] # blobs[KeyOf(d)]
        /\ \E s \in Slots : cycles[c][s].pc = "save"
        /\ Busy(d) # {}

\* C14: a coordinator never has two cycles in progress, and the list a cycle
\* is about to save is the merge of its feed into the blob as it stands (no
\* save has come between its load and its save).
C14_CyclesOfOneFeedNeverOverlap ==
    \A c \in Coordinators :
        /\ Cardinality(Busy(c)) <= 1
        /\ \A s \in Slots :
              cycles[c][s].pc = "save" =>
                 cycles[c][s].stored_list =
                    MergedHistory(LoadStored(blobs[KeyOf(c)]),
                                  cycles[c][s].rss_movies)

\* a periodic cycle is about to save a list that adds an entry to a stored
\* history
C14_Witness ==
    \E c \in Coordinators, s \in Slots :
        /\ cycles[c][s].pc = "save"
        /\ ~cycles[c][s].first
        /\ blobs[KeyOf(c)] # None
        /\ Len(cycles[c][s].stored_list) > Len(blobs[KeyOf(c)][1].movies)

\* the first refreshes are awaited one at a time, and the startup step
\* returns only when every coordinator of the dict has been refreshed
OneAtATimeAndAll ==
    /\ \A i \in DOMAIN firstStarted :
          i < Len(firstStarted) => firstStarted[i] \in first_done
    /\ startup.pc = "done" => first_done = Coordinators

\* C15 as stated: the first refreshes start in the order in which the
\* coordinators were registered (built and put into the dict), one at a
\* time, and the startup step returns only when all have been refreshed.
C15_FirstRefreshInRegistrationOrder ==
    /\ OneAtATimeAndAll
    /\ \A i, j \in DOMAIN firstStarted :
          i < j => feed_coordinators[firstStarted[i]].feed
                     < feed_coordinators[firstStarted[j]].feed
    /\ \A i \in DOMAIN firstStarted, c \in Coordinators :
          feed_coordinators[c].feed < feed_coordinators[firstStarted[i]].feed
             => \E j \in 1..i : firstStarted[j] = c

\* C15 as amended: the first refreshes start in the order of the dict (the
\* order in which the display names were first registered), one at a time,
\* and the startup step returns only when all have been refreshed.
C15_FirstRefreshInDictOrder ==
    /\ OneAtATimeAndAll
    /\ \A i \in DOMAIN firstStarted : firstStarted[i] = i

\* the startup step has returned after refreshing two coordinators, the
\* first of which was built from a later feed than the second
C15_Witness ==
    /\ startup.pc = "done"
    /\ Len(firstStarted) = 2
    /\ feed_coordinators[1].feed > feed_coordinators[2].feed

\* C16: a cycle that ends in a failure outcome returns a non-empty window
\* when the stored history is not empty, leaves the next cycle able to run,
\* and leaves a state from which a successful cycle on any feed stores what
\* it would have stored had the failed cycle not run.
C16_DegradedFeedKeepsServing ==
    [][outcome' \in FailureOutcomes =>
          /\ StoredMovies # <<>> =>
                /\ data'[1].movies # <<>>
                /\ data'[1].movies_for_devices # <<>>
                /\ data'[1].latest_movie # None
          /\ \A rss_movies \in Feeds :
                StoreAfter(store', rss_movies) = StoreAfter(store, rss_movies)]_vars
    /\ [](outcome \in FailureOutcomes => ENABLED SuccessCycle)

\* a failed cycle has returned a window as long as the full history, and
\* some feed's entries would be merged into that history by the next cycle
C16_Witness ==
    /\ outcome = "client_error"
    /\ data[1].error = "ClientError"
    /\ Len(data[1].movies) = MAX_STORED_MOVIES
    /\ \E rss_movies \in Feeds :
          /\ rss_movies # <<>>
          /\ StoreAfter(store, rss_movies) # store

\* the fetch met a network failure: no response, or a body that broke off
NetworkFailure(fetch) ==
    fetch.kind \in {"client_error", "timeout", "payload_error"}

\* C17: after a submission that ran the validation, the form reports
\* cannot_connect whenever the fetch met a network failure or a status other
\* than 200, and reports invalid_feed only for a fetched feed that is empty
\* or whose first entries do not match.
C17_CannotConnectVersusInvalidFeed ==
    last_fetch # None =>
        /\ (NetworkFailure(last_fetch[1]) \/ last_fetch[1].status # 200)
              => flow_errors = FormError("base", "cannot_connect")
        /\ flow_errors = FormError("base", "invalid_feed")
              => /\ last_fetch[1].kind = "response"
                 /\ last_fetch[1].status = 200
                 /\ \/ last_fetch[1].entries = <<>>
                    \/ ~AnyOfFirstThree(last_fetch[1].entries)

\* C18: a submission that ran the validation appended the feed iff the fetch
\* returned status 200 and a decoded feed with at least one entry, one of the
\* first three of which has a matching link.
C18_AcceptedIffValid ==
    last_fetch # None =>
        ((/\ flow_step = "add_another"
          /\ flow_errors = None
          /\ flow_feeds # <<>>
          /\ flow_feeds[Len(flow_feeds)].url = submitted)
         <=>
         (/\ last_fetch[1].kind = "response"
          /\ last_fetch[1].status = 200
          /\ Len(last_fetch[1].entries) >= 1
          /\ \E i \in 1..3 : /\ i <= Len(last_fetch[1].entries)
                             /\ last_fetch[1].entries[i]))

\* a feed whose only matching link is the fourth was rejected, with a feed
\* already in the list
C18_Witness ==
    /\ last_fetch # None
    /\ last_fetch[1].entries = <<FALSE, FALSE, FALSE, TRUE>>
    /\ flow_step = "user"
    /\ flow_errors = FormError("base", "invalid_feed")
    /\ Len(flow_feeds) = 1

\* C19: the list of the flow and the created entry never hold two feeds with
\* the same URL, and a submission whose URL is already in the list shows
\* feed_already_added and leaves the list as it was.
C19_NoDuplicateUrl ==
    /\ [](/\ Cardinality(UrlsOf(flow_feeds)) = Len(flow_feeds)
          /\ flow_data # None =>
                Cardinality(UrlsOf(flow_data[1])) = Len(flow_data[1]))
    /\ [][(flow_step = "user" /\ submitted' \in UrlsOf(flow_feeds))
             => /\ flow_errors' = FormError("feed_url", "feed_already_added")
                /\ flow_feeds' = flow_feeds
                /\ flow_step' = "user"]_vars

\* a URL of a list of two feeds was submitted again (after "add another")
C19_Witness ==
    /\ flow_errors = FormError("feed_url", "feed_already_added")
    /\ Len(flow_feeds) = NumFlowUrls
    /\ submitted = flow_feeds[1].url

\* the fields of movie_data other than those computed from the date
SameButDate(m, n) ==
    /\ m.movie_title = n.movie_title
    /\ m.rating = n.rating
    /\ m.year = n.year
    /\ m.image_url = n.image_url
    /\ m.link = n.link

\* the fields of movie_data other than image_url
SameButImage(m, n) ==
    /\ m.movie_title = n.movie_title
    /\ m.rating = n.rating
    /\ m.year = n.year
    /\ m.date_added = n.date_added
    /\ m.link = n.link
    /\ m.unique_id = n.unique_id

\* C20: the loop body raises for no entry; an entry whose date, image,
\* rating or year cannot be extracted gets the empty value of that field
\* (for the date, the raw date string) and the other fields it would have
\* had; a successful cycle has stored a record for every entry of the feed.
C20_NormalizationNeverRaises ==
    /\ \A i \in DOMAIN raw_feed :
          LET entry == raw_feed[i]
              movie == Normalize(entry).movie
          IN /\ ~Normalize(entry).raised
             /\ movie.link = entry.link
             /\ \A d \in DateInputs :
                   LET other == [entry EXCEPT
                                    !.published_parsed = d.published_parsed,
                                    !.published = d.published]
                   IN /\ ~Normalize(other).raised
                      /\ SameButDate(Normalize(other).movie, movie)
                      /\ (d.published_parsed = None
                             \/ ~d.published_parsed[1].valid)
                            => Normalize(other).movie.date_added = d.published
             /\ LET other == [entry EXCEPT !.content = <<>>, !.summary = None]
                IN /\ Normalize(other).movie.image_url = None
                   /\ SameButImage(Normalize(other).movie, movie)
             /\ LET other == [entry EXCEPT !.title = <<"w">>]
                IN /\ Normalize(other).movie.rating = None
                   /\ Normalize(other).movie.year = None
                   /\ Normalize(other).movie.image_url = movie.image_url
                   /\ Normalize(other).movie.date_added = movie.date_added
                   /\ Normalize(other).movie.unique_id = movie.unique_id
    /\ outcome = "success" =>
          /\ data[1].error = NoError
          /\ Range(StoredMovies) \subseteq Range(Normalized(raw_feed))
          /\ (/\ Cardinality(IdsOf(Normalized(raw_feed))) = Len(raw_feed)
              /\ Cardinality(LinksOf(Normalized(raw_feed))) = Len(raw_feed))
                => Range(StoredMovies) = Range(Normalized(raw_feed))

\* a successful cycle has stored both entries of a feed whose first entry
\* has a date tuple datetime() refuses, no image, no rating and no year, and
\* whose second entry has them all
C20_Witness ==
    /\ outcome = "success"
    /\ Len(raw_feed) = 2
    /\ raw_feed[1].published_parsed # None
    /\ ~raw_feed[1].published_parsed[1].valid
    /\ raw_feed[2] = GoodEntry(2)
    /\ Len(StoredMovies) = 2
    /\ \E i \in DOMAIN StoredMovies :
          /\ StoredMovies[i].link = 1
          /\ StoredMovies[i].image_url = None
          /\ StoredMovies[i].rating = None
          /\ StoredMovies[i].year = None
          /\ StoredMovies[i].date_added = raw_feed[1].published
    /\ \E i \in DOMAIN StoredMovies :
          /\ StoredMovies[i].link = 2
          /\ StoredMovies[i].image_url # None
          /\ StoredMovies[i].rating # None
          /\ StoredMovies[i].year # None

\* the unique_id of a record is the id function of its own link and date
IdIsOwn(movie) == movie.unique_id = MovieUniqueId(movie.link, movie.date_added)

\* C21: every record of a loaded history, of a returned output and of the
\* history a successful cycle has persisted carries the id function of its
\* own link and date_added, whatever id the stored record carried, and a
\* loaded record has the unique_id of every parsed entry of its link and date.
C21_IdIsFunctionOfLinkAndDate ==
    /\ \A i \in DOMAIN LoadStored(store) :
          /\ IdIsOwn(LoadStored(store)[i])
          /\ \A entry \in ParsedEntries :
                (/\ entry.link = LoadStored(store)[i].link
                 /\ entry.date_added = LoadStored(store)[i].date_added)
                  => entry.unique_id = LoadStored(store)[i].unique_id
    /\ data # None =>
          /\ \A i \in DOMAIN data[1].movies : IdIsOwn(data[1].movies[i])
          /\ \A i \in DOMAIN data[1].movies_for_devices :
                IdIsOwn(data[1].movies_for_devices[i])
          /\ data[1].latest_movie # None => IdIsOwn(data[1].latest_movie[1])
    /\ outcome = "success" =>
          \A i \in DOMAIN StoredMovies : IdIsOwn(StoredMovies[i])

\* a failed cycle has returned a window over a history whose records carry
\* no unique_id in storage
C21_Witness ==
    /\ outcome \in FailureOutcomes
    /\ StoredMovies # <<>>
    /\ \A i \in DOMAIN StoredMovies : StoredMovies[i].unique_id = None
    /\ data[1].movies # <<>>
    /\ data[1].latest_movie[1].link = StoredMovies[1].link

\* the title the year extraction of an entry starts from: trimmed, and cut
\* at the rating
RatedTitle(entry) == ExtractRating(StripTitle(entry.title)).title

HasCommaYear(title) ==
    \E i, j \in DOMAIN title : CommaYearMatch(title, i, j)

HasParenYear(title) ==
    \E i \in DOMAIN title : ParenYearMatch(title, i)

\* C22: in the history a successful cycle has written, the record of an
\* entry whose title ends in the comma form has the year of that form and
\* the title before the comma; otherwise that of an entry whose title holds
\* the parenthesised form has the year of that form; that of an entry whose
\* title holds neither form has no year and the title unchanged but for the
\* trimming.
C22_YearFormsAndUntouchedTitle ==
    outcome = "success" =>
      \A k \in DOMAIN raw_feed : \A n \in DOMAIN StoredMovies :
        StoredMovies[n].link = raw_feed[k].link =>
          LET title == RatedTitle(raw_feed[k])
              movie == StoredMovies[n]
          IN /\ HasCommaYear(title) =>
                   \E i, j \in DOMAIN title :
                      /\ CommaYearMatch(title, i, j)
                      /\ movie.year = Some(YearValue(title[j]))
                      /\ movie.movie_title = StripTitle(SubSeq(title, 1, i - 1))
             /\ (~HasCommaYear(title) /\ HasParenYear(title)) =>
                   \E i \in DOMAIN title :
                      /\ ParenYearMatch(title, i)
                      /\ movie.year = Some(YearValue(title[i + 1]))
             /\ (~HasCommaYear(title) /\ ~HasParenYear(title)) =>
                   /\ movie.year = None
                   /\ movie.movie_title = StripTitle(title)

\* the content blocks of an entry in which the regular expression of lines
\* 129-132 finds a src
YieldingBlocks(entry) ==
    {i \in DOMAIN entry.content :
        entry.content[i].img /\ entry.content[i].src # None}

\* C23: in the history a successful cycle has written, the image of an
\* entry is the src found in the first of its content blocks that yields
\* one; if it has no content block or none yields one, the src found in its
\* summary; it is absent only if the summary yields none either.
C23_FirstContentImageElseSummary ==
    outcome = "success" =>
      \A k \in DOMAIN raw_feed : \A n \in DOMAIN StoredMovies :
        StoredMovies[n].link = raw_feed[k].link =>
          LET entry == raw_feed[k]
              image_url == StoredMovies[n].image_url
          IN IF YieldingBlocks(entry) # {}
             THEN image_url = entry.content[MinOf(YieldingBlocks(entry))].src
             ELSE IF entry.summary # None
                  THEN image_url = entry.summary[1].src
                  ELSE image_url = None

\* the title before its first filled star, trimmed
CutAtFirstStar(title) ==
    StripTitle(SubSeq(title, 1,
                      MinOf({i \in DOMAIN title : title[i] = "star"}) - 1))

\* C24: in the history a successful cycle has written, the record of an
\* entry whose title has no filled star has no rating; otherwise its rating
\* is the number of filled stars plus a half if the title has a half star,
\* and its year and title are extracted from the title cut at the first
\* filled star and trimmed ("Dune, 2021 ****1/2": 4.5, 2021, "Dune"); a
\* rating is between 0.0 and 5.0 (0 to 10 half stars).
C24_RatingCountsStars ==
    outcome = "success" =>
      \A k \in DOMAIN raw_feed : \A n \in DOMAIN StoredMovies :
        StoredMovies[n].link = raw_feed[k].link =>
          LET title == StripTitle(raw_feed[k].title)
              movie == StoredMovies[n]
          IN /\ "star" \notin Range(title) => movie.rating = None
             /\ "star" \in Range(title) =>
                   /\ movie.rating =
                        Some(2 * Count(title, "star")
                             + (IF "half" \in Range(title) THEN 1 ELSE 0))
                   /\ movie.year = ExtractYear(CutAtFirstStar(title)).year
                   /\ movie.movie_title = ExtractYear(CutAtFirstStar(title)).title
             /\ title = <<"w", ",", " ", "1999", " ",
                          "star", "star", "star", "star", "half">> =>
                   /\ movie.rating = Some(9)
                   /\ movie.year = Some(1999)
                   /\ movie.movie_title = <<"w">>
             /\ movie.rating # None => movie.rating[1] \in 0..10

\* two parsed entries share their link or their unique_id
SameLinkOrId(m, n) == m.link = n.link \/ m.unique_id = n.unique_id

\* neither the link nor the unique_id of the entry is in the history
NotStored(movie, stored_list) ==
    /\ movie.link \notin LinksOf(stored_list)
    /\ movie.unique_id \notin IdsOf(stored_list)

\* batches of two entries of a link the feeds of raw_feed do not hold
FreshPairs ==
    LET versions == {Normalize(GoodEntry(3)).movie, Normalize(PoorEntry(3)).movie}
    IN {<<m, n>> : m \in versions, n \in versions}

\* C25: a first successful cycle on a batch of two entries that share their
\* link or their unique_id has stored the first of them alone; and merged
\* into the history stored by now, a batch of two entries that share their
\* link or unique_id, neither stored, appends its first entry alone.
C25_FirstOfBatchWins ==
    /\ (/\ outcome = "success"
        /\ Len(raw_feed) = 2
        /\ SameLinkOrId(Normalized(raw_feed)[1], Normalized(raw_feed)[2]))
          => StoredMovies = <<Normalized(raw_feed)[1]>>
    /\ \A batch \in FreshPairs :
          (/\ SameLinkOrId(batch[1], batch[2])
           /\ NotStored(batch[1], LoadStored(store))
           /\ NotStored(batch[2], LoadStored(store)))
            => MergeRss(LoadStored(store), batch)
                 = Append(LoadStored(store), batch[1])

\* a successful cycle on a document that holds one link twice, with two
\* dates, has stored the first entry and not the second
C25_Witness ==
    /\ outcome = "success"
    /\ Len(raw_feed) = 2
    /\ raw_feed[1].link = raw_feed[2].link
    /\ Normalized(raw_feed)[1].unique_id # Normalized(raw_feed)[2].unique_id
    /\ StoredMovies = <<Normalized(raw_feed)[1]>>
    /\ Normalized(raw_feed)[2] \notin Range(StoredMovies)

\* the display names of the configured feeds
DisplayNames == {FeedNameOf(feeds[i]) : i \in DOMAIN feeds}

\* C26: the dict holds one coordinator per display name of the configured
\* feeds (the URL of a feed without a name), built from the last feed of
\* that name; what a read of the aggregated output returns has one key per
\* display name, each with the data attribute of the coordinator of that
\* name as it stood, and the read starts no cycle and changes no data
\* attribute.
C26_OnePipelinePerDisplayName ==
    /\ [](/\ {feed_coordinators[c].name : c \in Coordinators} = DisplayNames
          /\ Len(feed_coordinators) = Cardinality(DisplayNames)
          /\ \A c \in Coordinators :
                /\ feed_coordinators[c].feed \in DOMAIN feeds
                /\ FeedNameOf(feeds[feed_coordinators[c].feed])
                     = feed_coordinators[c].name
                /\ \A i \in DOMAIN feeds :
                      FeedNameOf(feeds[i]) = feed_coordinators[c].name
                         => i <= feed_coordinators[c].feed
          /\ aggregated # None =>
                /\ {aggregated[1][k].name : k \in DOMAIN aggregated[1]}
                     = DisplayNames
                /\ Len(aggregated[1]) = Cardinality(DisplayNames))
    /\ [][aggregated' # aggregated =>
            /\ \A k \in DOMAIN aggregated'[1] : \E c \in Coordinators :
                  /\ feed_coordinators[c].name = aggregated'[1][k].name
                  /\ aggregated'[1][k].data = coordinator_data[c]
            /\ UNCHANGED <<coordinator_data, cycles, blobs>>]_vars

\* of three feeds the first and the last share a display name; the output
\* read has two keys, and under the shared name the data of the coordinator
\* built from the last feed
C26_Witness ==
    /\ Len(feeds) = 3
    /\ FeedNameOf(feeds[1]) = FeedNameOf(feeds[3])
    /\ FeedNameOf(feeds[2]) # FeedNameOf(feeds[1])
    /\ aggregated # None
    /\ Len(aggregated[1]) = 2
    /\ feed_coordinators[1].feed = 3
    /\ aggregated[1][1].name = FeedNameOf(feeds[3])
    /\ aggregated[1][1].data # None
    /\ aggregated[1][1].data = coordinator_data[1]
    /\ aggregated[1][2].data = None

\* two records agree on every field but the unique_id
SameFields(m, n) ==
    /\ m.movie_title = n.movie_title
    /\ m.rating = n.rating
    /\ m.year = n.year
    /\ m.image_url = n.image_url
    /\ m.date_added = n.date_added
    /\ m.link = n.link

\* the history holds the record, with the fields it has
Holds(list, movie) == \E j \in DOMAIN list : SameFields(list[j], movie)

\* C27: whatever the feed, a successful cycle keeps every stored record
\* unless the merged list is longer than the cap; a step that is a successful
\* cycle removes a stored record only from a history that is at the cap
\* afterwards, and every record it leaves under a link that was stored has the
\* title, rating, year, image, date and link the stored record had.
C27_AppendMostly ==
    /\ [](\A rss_movies \in Feeds :
            Len(MergeRss(LoadStored(store), rss_movies)) <= MAX_STORED_MOVIES
              => \A i \in DOMAIN StoredMovies :
                    Holds(StoreAfter(store, rss_movies)[1].movies,
                          StoredMovies[i]))
    /\ [][outcome' = "success" =>
            /\ \A i \in DOMAIN StoredMovies :
                  \/ Holds(StoredMovies', StoredMovies[i])
                  \/ /\ Len(StoredMovies') = MAX_STORED_MOVIES
                     /\ \A j \in DOMAIN StoredMovies' :
                           StoredMovies'[j].date_added
                              >= StoredMovies[i].date_added
            /\ \A i \in DOMAIN StoredMovies : \A j \in DOMAIN StoredMovies' :
                  StoredMovies'[j].link = StoredMovies[i].link
                     => SameFields(StoredMovies'[j], StoredMovies[i])]_vars

\* the history is at the cap and has lost a record to it, it holds version
\* "A" of the entry of link 1, and the last successful cycle did not append
\* every entry of its feed
C27_Witness ==
    /\ outcome = "success"
    /\ merge = "some_blocked"
    /\ maxDropped > 0
    /\ Len(StoredMovies) = MAX_STORED_MOVIES
    /\ \E i \in DOMAIN StoredMovies :
          /\ StoredMovies[i].link = 1
          /\ StoredMovies[i].movie_title = "A"
          /\ StoredMovies[i].rating = Some(9)

====
